---- MODULE Spec2Model ----
(***************************************************************************)
(* State-machine model of the summarization service                        *)
(* (src/src/summarization/summarization.service.ts and                     *)
(* src/src/utils/summarization.util.ts).                                   *)
(*                                                                         *)
(* URLs, file names, paths and texts are sequences of one-character        *)
(* strings so that the regular expressions, extname, trim, split and       *)
(* startsWith of the source are computed character by character.  API      *)
(* keys, error messages and summaries are plain strings.                   *)
(***************************************************************************)
EXTENDS Integers, Sequences, FiniteSets, TLC

(***************************************************************************)
(* Bounds of the model.                                                    *)
(***************************************************************************)
\* number of requests the framework runs concurrently
NumReqs == 2

(***************************************************************************)
(* JavaScript values.                                                      *)
(***************************************************************************)
\* `undefined` for a string parameter (userApiKey, defaultApiKey)
Undefined == "<undefined>"
\* `null` where the source returns string | null
Null == <<"<null>">>
\* a value is truthy when it is neither undefined nor the empty string
Truthy(s) == s # Undefined /\ s # ""

(***************************************************************************)
(* Character-level helpers.                                                *)
(***************************************************************************)
LowerAlpha == <<"a", "b", "c", "d", "e", "f", "g", "h", "i", "j", "k", "l", "m", "n", "o", "p", "q", "r", "s", "t", "u", "v", "w", "x", "y", "z">>
UpperAlpha == <<"A", "B", "C", "D", "E", "F", "G", "H", "I", "J", "K", "L", "M", "N", "O", "P", "Q", "R", "S", "T", "U", "V", "W", "X", "Y", "Z">>
Digits == {"0", "1", "2", "3", "4", "5", "6", "7", "8", "9"}
Range(s) == {s[i] : i \in DOMAIN s}
\* the class [\w-] of the regular expressions
WordDash == Range(LowerAlpha) \cup Range(UpperAlpha) \cup Digits \cup {"_", "-"}
\* characters String.prototype.trim removes
WhiteSpace == {" ", "\t", "\n", "\r"}
\* characters `.` of a regular expression does not match
LineTerminator == {"\n", "\r"}

Min(S) == CHOOSE x \in S : \A y \in S : x <= y
Max(S) == CHOOSE x \in S : \A y \in S : x >= y

\* s.startsWith(p, i - 1): p occurs in s at (1-based) position i
OccursAt(s, p, i) ==
    /\ i >= 1
    /\ i + Len(p) - 1 <= Len(s)
    /\ SubSeq(s, i, i + Len(p) - 1) = p
StartsWith(s, p) == OccursAt(s, p, 1)

\* String.prototype.toLowerCase on the ASCII letters
LowerChar(c) ==
    IF \E i \in DOMAIN UpperAlpha : UpperAlpha[i] = c
    THEN LowerAlpha[CHOOSE i \in DOMAIN UpperAlpha : UpperAlpha[i] = c]
    ELSE c
ToLowerCase(s) == [i \in DOMAIN s |-> LowerChar(s[i])]

\* String.prototype.trim
Trim(s) ==
    LET keep == {i \in DOMAIN s : s[i] \notin WhiteSpace}
    IN  IF keep = {} THEN <<>> ELSE SubSeq(s, Min(keep), Max(keep))

\* Array.prototype.join(' ') on a sequence of texts (the sequence is halved
\* so that the depth of the recursion stays logarithmic)
RECURSIVE JoinSpace(_)
JoinSpace(parts) ==
    IF Len(parts) = 0 THEN <<>>
    ELSE IF Len(parts) = 1 THEN parts[1]
    ELSE LET h == Len(parts) \div 2
         IN  JoinSpace(SubSeq(parts, 1, h)) \o <<" ">>
                 \o JoinSpace(SubSeq(parts, h + 1, Len(parts)))

\* the positions of s, in order
Indices(s) == [i \in 1..Len(s) |-> i]

\* String.prototype.split(' '): the texts between consecutive spaces, always
\* at least one (possibly empty) part
SplitSpace(s) ==
    LET sp == SelectSeq(Indices(s), LAMBDA i : s[i] = " ")
        n == Len(sp)
    IN  [k \in 1..(n + 1) |->
            SubSeq(s, IF k = 1 THEN 1 ELSE sp[k - 1] + 1,
                      IF k = n + 1 THEN Len(s) ELSE sp[k] - 1)]

\* Array.prototype.filter((text) => text.length > 0)
FilterNonEmpty(parts) == SelectSeq(parts, LAMBDA p : Len(p) > 0)

\* Array.prototype.slice(0, n)
Slice0(parts, n) == SubSeq(parts, 1, IF n < Len(parts) THEN n ELSE Len(parts))

(***************************************************************************)
(* src/src/utils/summarization.util.ts and src/unnamed/part_000            *)
(***************************************************************************)
\* /^(https?:\/\/)?(www\.)?(youtube\.com|youtu\.?be)\/.+/
SchemeAlts == {<<>>, <<"h", "t", "t", "p", ":", "/", "/">>, <<"h", "t", "t", "p", "s", ":", "/", "/">>}
WwwAlts == {<<>>, <<"w", "w", "w", ".">>}
HostAlts == {<<"y", "o", "u", "t", "u", "b", "e", ".", "c", "o", "m">>, <<"y", "o", "u", "t", "u", "b", "e">>, <<"y", "o", "u", "t", "u", ".", "b", "e">>}
isValidYouTubeUrl(url) ==
    \E sch \in SchemeAlts, www \in WwwAlts, host \in HostAlts :
        LET head == sch \o www \o host \o <<"/">>
        IN  /\ StartsWith(url, head)
            /\ Len(url) > Len(head)
            /\ url[Len(head) + 1] \notin LineTerminator

\* One pattern of extractVideoId: lead ([\w-]{11}) (term | $), where lead is
\* one of `leads` (tried in order) and term one of `terms`.
PatternAt(url, i, lead, terms) ==
    LET from == i + Len(lead)
    IN  /\ OccursAt(url, lead, i)
        /\ from + 10 <= Len(url)
        /\ \A k \in from..(from + 10) : url[k] \in WordDash
        /\ \/ from + 11 = Len(url) + 1
           \/ /\ from + 11 <= Len(url)
              /\ url[from + 11] \in terms
\* String.prototype.match: the leftmost match, the first alternative that
\* matches there; the value is capture group 1, or Null
PatternMatch(url, leads, terms) ==
    LET hits == {i \in 1..Len(url) : \E j \in DOMAIN leads : PatternAt(url, i, leads[j], terms)}
    IN  IF hits = {} THEN Null
        ELSE LET i == Min(hits)
                 j == Min({k \in DOMAIN leads : PatternAt(url, i, leads[k], terms)})
             IN  SubSeq(url, i + Len(leads[j]), i + Len(leads[j]) + 10)
\* the three patterns, in the order of the array
Patterns ==
    << [leads |-> << <<"v", "=">>, <<"/">> >>, terms |-> {"?", "&", "/"}],
       [leads |-> << <<"y", "o", "u", "t", "u", ".", "b", "e", "/">> >>, terms |-> {"?", "&"}],
       [leads |-> << <<"/", "s", "h", "o", "r", "t", "s", "/">> >>, terms |-> {"?", "&"}] >>
\* extractVideoId trying the patterns from the last to the first
extractVideoId_LastPatternFirst(url) ==
    LET m == [k \in DOMAIN Patterns |-> PatternMatch(url, Patterns[k].leads, Patterns[k].terms)]
        ok == {k \in DOMAIN Patterns : m[k] # Null}
    IN  IF ok = {} THEN Null ELSE m[Max(ok)]

extractVideoId(url) ==
    LET m == [k \in DOMAIN Patterns |-> PatternMatch(url, Patterns[k].leads, Patterns[k].terms)]
        ok == {k \in DOMAIN Patterns : m[k] # Null}
    IN  IF ok = {} THEN Null ELSE m[Min(ok)]

\* getApiKey testing `userApiKey !== undefined` instead of its truthiness
getApiKey_EmptyUserKeyWins(userApiKey, defaultApiKey) ==
    IF userApiKey # Undefined THEN [ok |-> TRUE, key |-> userApiKey]
    ELSE IF Truthy(defaultApiKey) THEN [ok |-> TRUE, key |-> defaultApiKey]
    ELSE [ok |-> FALSE, key |-> ""]

\* getApiKey testing the default key before the caller's
getApiKey_DefaultFirst(userApiKey, defaultApiKey) ==
    IF Truthy(defaultApiKey) THEN [ok |-> TRUE, key |-> defaultApiKey]
    ELSE IF Truthy(userApiKey) THEN [ok |-> TRUE, key |-> userApiKey]
    ELSE [ok |-> FALSE, key |-> ""]

\* getApiKey: the resolved key, or the BadRequestException it throws
MissingKeyError == [cls |-> "BadRequestException", msg |-> "API key is required"]
getApiKey(userApiKey, defaultApiKey) ==
    IF Truthy(userApiKey) THEN [ok |-> TRUE, key |-> userApiKey]
    ELSE IF Truthy(defaultApiKey) THEN [ok |-> TRUE, key |-> defaultApiKey]
    ELSE [ok |-> FALSE, key |-> ""]

\* getSummarizationOptions: options?.f ?? default, field by field.  An absent
\* argument is NoOptions; a DTO is a record holding some of the fields.
NoOptions == [absent |-> TRUE]
OptField(options, f, default) ==
    IF f \in DOMAIN options THEN options[f] ELSE default
\* getSummarizationOptions resolving length, format and listen only
getSummarizationOptions_WithoutModelAndSpeed(options) ==
    [length |-> OptField(options, "length", "standard"),
     format |-> OptField(options, "format", "narrative"),
     listen |-> OptField(options, "listen", FALSE)]

getSummarizationOptions(options) ==
    [length |-> OptField(options, "length", "standard"),
     format |-> OptField(options, "format", "narrative"),
     listen |-> OptField(options, "listen", FALSE),
     model |-> OptField(options, "model", "openai"),
     speed |-> OptField(options, "speed", "slow")]

(***************************************************************************)
(* Node's path module, as far as the service uses it.                      *)
(***************************************************************************)
\* path.basename(p): what follows the last "/"
basename(p) ==
    LET sl == {i \in DOMAIN p : p[i] = "/"}
    IN  IF sl = {} THEN p ELSE SubSeq(p, Max(sl) + 1, Len(p))
\* path.extname(p): from the last "." of the basename to its end; empty when
\* there is no "." or the basename starts with its only "."
extname(p) ==
    LET b == basename(p)
        dots == {i \in DOMAIN b : b[i] = "."}
    IN  IF dots = {} \/ Max(dots) = 1 \/ b = <<".", ".">> THEN <<>>
        ELSE SubSeq(b, Max(dots), Len(b))
\* path.join(dir, name)
join(dir, name) == dir \o <<"/">> \o name

(***************************************************************************)
(* Constants of SummarizationService (lines 36-38).                        *)
(***************************************************************************)
DOWNLOAD_DIR == <<"d", "o", "w", "n", "l", "o", "a", "d", "s">>
AUDIO_FORMAT == <<"m", "p", "3">>
MAX_TOKENS == 15000

(***************************************************************************)
(* Temp-file helpers imported from src/utils/summarization.util (line      *)
(* 15-23 of the service); their bodies are not part of the sources, they   *)
(* are modelled from the specification (sections 2, 3, 4.5 and 5).         *)
(***************************************************************************)
PrefixAlphabet == <<"a", "b", "c", "d", "e", "f", "g", "h">>
\* generateRandomSuffix: the prefixes it can produce (fixed length)
Prefixes == {<<PrefixAlphabet[i]>> : i \in 1..(NumReqs + 1)}
\* extractPrefixFromPath: the file name without directory and extension
extractPrefixFromPath(path) ==
    LET b == basename(path)
        e == extname(path)
    IN  SubSeq(b, 1, Len(b) - Len(e))
\* cleanupFiles(dir, prefix): the directory after deleting every file whose
\* name starts with the prefix
cleanupFiles(dirFiles, prefix) == {f \in dirFiles : ~StartsWith(f, prefix)}

(***************************************************************************)
(* Errors and results.                                                     *)
(***************************************************************************)
Err(cls, msg) == [cls |-> cls, msg |-> msg]
\* new Error(msg)
PlainError(msg) == Err("Error", msg)
\* new BadRequestException(msg): HTTP 400
BadRequestException(msg) == Err("BadRequestException", msg)
\* new UnsupportedMediaTypeException(msg): HTTP 415
UnsupportedMediaTypeException(msg) == Err("UnsupportedMediaTypeException", msg)
\* an exception raised by an external collaborator
ProviderError(msg) == Err("ProviderError", msg)
NoError == Err("", "")
\* the exception classes the framework answers with a 4xx status
ClientErrorClasses == {"BadRequestException", "UnsupportedMediaTypeException"}

NoValue == [transcript |-> Null, summary |-> ""]
Pending == [status |-> "pending", error |-> NoError, value |-> NoValue]
Rejected(e) == [status |-> "rejected", error |-> e, value |-> NoValue]
Resolved(v) == [status |-> "resolved", error |-> NoError, value |-> v]

(***************************************************************************)
(* Inputs of the two endpoints and outcomes of the collaborators.          *)
(***************************************************************************)
UrlWatch == <<"h", "t", "t", "p", "s", ":", "/", "/", "w", "w", "w", ".", "y", "o", "u", "t", "u", "b", "e", ".", "c", "o", "m", "/", "w", "a", "t", "c", "h", "?", "v", "=", "d", "Q", "w", "4", "w", "9", "W", "g", "X", "c", "Q">>
UrlShort == <<"y", "o", "u", "t", "u", ".", "b", "e", "/", "d", "Q", "w", "4", "w", "9", "W", "g", "X", "c", "Q">>
UrlChannel == <<"h", "t", "t", "p", "s", ":", "/", "/", "w", "w", "w", ".", "y", "o", "u", "t", "u", "b", "e", ".", "c", "o", "m", "/", "@", "c", "h", "a", "n">>
UrlVimeo == <<"h", "t", "t", "p", "s", ":", "/", "/", "v", "i", "m", "e", "o", ".", "c", "o", "m", "/", "1", "2", "3">>
UrlBare == <<"y", "o", "u", "t", "u", "b", "e", ".", "c", "o", "m", "/">>
Urls == {UrlWatch, UrlShort, UrlChannel, UrlVimeo, UrlBare}
OptionsDtos == {NoOptions, [length |-> "short", listen |-> TRUE]}
UserApiKeys == {Undefined, "", "sk-user"}
DefaultApiKeys == {Undefined, "sk-default"}
NoFile == [originalname |-> <<>>, buffer |-> <<>>]
FileNames == {<<"a", ".", "t", "x", "t">>, <<"B", ".", "P", "D", "F">>, <<"c", ".", "d", "o", "c", "x">>, <<"d", ".", "p", "n", "g">>, <<".", "t", "x", "t">>, <<"n", "o", "t", "e", "s">>}
FileTexts == {<<>>, <<" ", "\t">>, <<"h", "i", " ", "y", "o">>}
Files == [originalname : FileNames, buffer : FileTexts]
\* YoutubeTranscript.fetchTranscript: the segment lists it can return
TranscriptItems == {<<>>, <<[text |-> <<" ", " ">>]>>, <<[text |-> <<" ", "h", "i", " ">>], [text |-> <<>>], [text |-> <<"y", "o">>]>>}
\* openaiClient.audio.transcriptions.create: the response.text it can return
TranscriptionTexts == {<<>>, <<"h", "i", " ", "y", "o">>}
\* a transcription of one word more than the word budget of line 108
LongTranscription ==
    [i \in 1..(2 * (MAX_TOKENS \div 4) + 1) |-> IF i % 2 = 1 THEN "w" ELSE " "]
\* openaiClient.chat.completions.create: the responses it can return
CompletionResponses ==
    {[choices |-> <<>>],
     [choices |-> <<[message |-> [content |-> ""]]>>],
     [choices |-> <<[message |-> [content |-> "A summary."]]>>]}
\* youtube-dl-exec: it writes the output file and returns; returns without
\* writing it; fails; fails leaving a partial file beside the output path
YtdlpOutcomes == {"written", "silent", "failed", "failedPartial"}
PartialSuffix == <<".", "p", "a", "r", "t">>
UpstreamMessage == "upstream failure"

(***************************************************************************)
(* State.                                                                  *)
(***************************************************************************)
VARIABLES
    req,            \* req[r]: the state of request r (see IdleReq)
    files,          \* the names of the files in DOWNLOAD_DIR
    issued,         \* the prefixes generateRandomSuffix has returned
    defaultApiKey,  \* process.env.OPENAI_API_KEY, read at construction
    call            \* one application of a function of the utilities

vars == <<req, files, issued, defaultApiKey, call>>

Reqs == 1..NumReqs
\* call: the function applied, its argument(s), and its result once applied
NoCall == [fn |-> "none", arg |-> <<>>, applied |-> FALSE, result |-> <<>>]
FirstReq == CHOOSE r \in Reqs : \A q \in Reqs : r <= q

NoInput == [kind |-> "none", videoUrl |-> <<>>, file |-> NoFile,
            optionsDto |-> NoOptions, userApiKey |-> Undefined]
\* pc: the await the request is suspended at ("idle" before the call,
\* "done" once its promise is settled); audioCtx: the call site of
\* summarizeYouTubeVideoUsingAudio; sumCtx: the call site of summarizeText;
\* log: in order, the calls made to the collaborators and to getApiKey
\* (when it returned a key), how each awaited call settled ("<call>.resolved"
\* or "<call>.rejected") and the exceptions thrown by the service's own
\* methods ("<method>.rejected").  History of the request, read by the
\* properties only: audioCreated, existsSync(audioPath) held after the
\* download; cleanupSaw, the directory as cleanupFiles found it
IdleReq ==
    [pc |-> "idle", input |-> NoInput, options |-> NoOptions,
     audioPath |-> Null, audioCtx |-> "", sumCtx |-> "",
     transcript |-> Null, result |-> Pending, log |-> <<>>,
     audioCreated |-> FALSE, cleanupSaw |-> {}]

Init ==
    /\ req = [r \in Reqs |-> IdleReq]
    /\ files = {}
    /\ issued = {}
    /\ defaultApiKey \in DefaultApiKeys
    /\ call = NoCall

\* the world a handler of request r works on: its own record and the
\* shared directory
World(r) == [s |-> req[r], files |-> files, issued |-> issued]
Commit(r, w) ==
    /\ req' = [req EXCEPT ![r] = w.s]
    /\ files' = w.files
    /\ issued' = w.issued
    /\ UNCHANGED <<defaultApiKey, call>>

Logged(w, op, arg) == [w EXCEPT !.s.log = Append(@, [op |-> op, arg |-> arg])]
Thrown(w, method) == Logged(w, method \o ".rejected", <<>>)
\* an awaited collaborator call `op` settles: it returns, or it throws
CallReturned(w, op, arg) == Logged(w, op \o ".resolved", arg)
CallFailed(w, op) == Logged(w, op \o ".rejected", <<UpstreamMessage>>)
At(w, pc) == [w EXCEPT !.s.pc = pc]
\* the request's promise rejects with e / resolves with v
Reject(w, e) == [w EXCEPT !.s.pc = "done", !.s.result = Rejected(e)]
Resolve(w, v) == [w EXCEPT !.s.pc = "done", !.s.result = Resolved(v)]

(***************************************************************************)
(* SummarizationService: the audio-fallback branch.                        *)
(***************************************************************************)
\* generateRandomSuffix: a prefix no earlier call has returned
generateRandomSuffix(used) == Prefixes \ used

\* downloadAudio writing every download to the same file name
downloadAudio_call_FixedName(w, prefix) ==
    LET audioPath == join(DOWNLOAD_DIR, <<"a", "u", "d", "i", "o">> \o <<".">> \o AUDIO_FORMAT)
        w1 == [w EXCEPT !.issued = @ \cup {prefix}, !.s.audioPath = audioPath]
    IN  At(Logged(w1, "ytdlp", w.s.input.videoUrl), "ytdlp")

\* downloadAudio up to `await this.ytdlp(...)` (lines 172-186)
downloadAudio_call(w, prefix) ==
    LET audioPath == join(DOWNLOAD_DIR, prefix \o <<".">> \o AUDIO_FORMAT)
        w1 == [w EXCEPT !.issued = @ \cup {prefix}, !.s.audioPath = audioPath]
    IN  At(Logged(w1, "ytdlp", w.s.input.videoUrl), "ytdlp")

\* summarizeYouTubeVideoUsingAudio up to its first await (lines 117-126),
\* called from call site ctx: "noId" (line 73) or "fallback" (line 87)
summarizeYouTubeVideoUsingAudio(r, w, ctx) ==
    \E prefix \in generateRandomSuffix(w.issued) :
        Commit(r, downloadAudio_call([w EXCEPT !.s.audioCtx = ctx], prefix))

\* catch (transcriptError) of summarizeYouTubeVideo (lines 86-92)
TranscriptCatch(r, w, e) == summarizeYouTubeVideoUsingAudio(r, w, "fallback")

\* catch (error) of summarizeYouTubeVideo (lines 93-96)
OuterCatch(w, e) == Reject(w, BadRequestException(e.msg))

\* `return await this.summarizeYouTubeVideoUsingAudio(...)`: the rejection is
\* thrown inside the try block the return statement stands in
ReturnAwaitAudioPromise(r, w, e) ==
    IF w.s.audioCtx = "noId"
    THEN TranscriptCatch(r, w, e)
    ELSE Commit(r, OuterCatch(w, e))

\* `return this.summarizeYouTubeVideoUsingAudio(...)` (lines 73-77, 87-91):
\* the promise is returned without await, so when it rejects no try block
\* of summarizeYouTubeVideo is active any more and the caller's promise
\* rejects with the same error
ReturnAudioPromise(r, w, e) == Commit(r, Reject(w, e))

\* catch (error) of summarizeYouTubeVideoUsingAudio (lines 133-137)
AudioCatch(r, w, e) ==
    ReturnAudioPromise(r, w, PlainError("Failed to summarize video using audio: " \o e.msg))

\* transcribeAudio up to `await ...transcriptions.create(...)` (lines 215-234)
transcribeAudio_call(r, w) ==
    LET k == getApiKey(w.s.input.userApiKey, defaultApiKey)
    IN  IF k.ok
        THEN Commit(r, At(Logged(Logged(w, "getApiKey", <<k.key>>),
                                 "transcriptions.create", w.s.audioPath),
                          "transcriptions.create"))
        ELSE AudioCatch(r, Thrown(w, "transcribeAudio"), MissingKeyError)

\* downloadAudio returning the path without the existsSync test of line 194
downloadAudio_return_NoExistsCheck(r, w, outcome) ==
    LET name == basename(w.s.audioPath)
        w1 == [w EXCEPT !.files =
                  CASE outcome = "written" -> @ \cup {name}
                    [] outcome = "failedPartial" -> @ \cup {name \o PartialSuffix}
                    [] OTHER -> @]
        threw == outcome \in {"failed", "failedPartial"}
        w2 == IF threw THEN CallFailed(w1, "ytdlp") ELSE CallReturned(w1, "ytdlp", <<>>)
    IN  IF threw
        THEN AudioCatch(r, Thrown(w2, "downloadAudio"), PlainError("Failed to download audio"))
        ELSE transcribeAudio_call(r, [w2 EXCEPT !.s.audioCreated = TRUE])

\* downloadAudio after the tool has returned or thrown (lines 188-206), and
\* line 127 of the caller
downloadAudio_return(r, w, outcome) ==
    LET name == basename(w.s.audioPath)
        w1 == [w EXCEPT !.files =
                  CASE outcome = "written" -> @ \cup {name}
                    [] outcome = "failedPartial" -> @ \cup {name \o PartialSuffix}
                    [] OTHER -> @]
        threw == outcome \in {"failed", "failedPartial"}
        w2 == IF threw THEN CallFailed(w1, "ytdlp") ELSE CallReturned(w1, "ytdlp", <<>>)
    IN  IF threw \/ name \notin w2.files
        THEN AudioCatch(r, Thrown(w2, "downloadAudio"), PlainError("Failed to download audio"))
        ELSE transcribeAudio_call(r, [w2 EXCEPT !.s.audioCreated = TRUE])

\* lines 129-132: cleanup and the value of the audio branch
summarizeYouTubeVideoUsingAudio_finish(w, summary) ==
    LET prefix == extractPrefixFromPath(w.s.audioPath)
        w1 == [w EXCEPT !.files = cleanupFiles(@, prefix), !.s.cleanupSaw = w.files]
    IN  Resolve(w1, [transcript |-> w.s.transcript, summary |-> summary])

(***************************************************************************)
(* SummarizationService.summarizeText (lines 260-306); ctx is its call     *)
(* site: "direct" (line 80), "audio" (line 128) or "file" (line 163).      *)
(***************************************************************************)
\* an exception of summarizeText reaches the catch clause around its call
summarizeText_throw(r, w, ctx, e) ==
    LET w1 == Logged(w, "summarizeText.rejected", <<e.cls, e.msg>>)
    IN  CASE ctx = "direct" -> TranscriptCatch(r, w1, e)
          [] ctx = "audio" -> AudioCatch(r, w1, e)
          [] ctx = "file" -> Commit(r, Reject(w1, e))

\* lines 265-273: resolve the key, then call the completion service
summarizeText_call(r, w, text, ctx) ==
    LET k == getApiKey(w.s.input.userApiKey, defaultApiKey)
    IN  IF k.ok
        THEN Commit(r, At(Logged(Logged([w EXCEPT !.s.sumCtx = ctx], "getApiKey", <<k.key>>),
                                 "completions.create", text),
                          "completions.create"))
        ELSE summarizeText_throw(r, w, ctx, MissingKeyError)

\* summarizeText returning the first choice's content without the `||` of
\* line 296
summaryOf_NoPlaceholder(response) ==
    IF response.choices # <<>> THEN response.choices[1].message.content ELSE ""

\* lines 295-297: response.choices[0]?.message?.content || placeholder
summaryOf(response) ==
    IF response.choices # <<>> /\ response.choices[1].message.content # ""
    THEN response.choices[1].message.content
    ELSE "Could not generate a summary."

\* the caller's continuation after `await this.summarizeText(...)`
summarizeText_return(r, w, summary) ==
    CASE w.s.sumCtx = "direct" ->
            Commit(r, Resolve(w, [transcript |-> w.s.transcript, summary |-> summary]))
      [] w.s.sumCtx = "audio" ->
            Commit(r, summarizeYouTubeVideoUsingAudio_finish(w, summary))
      [] w.s.sumCtx = "file" ->
            Commit(r, Resolve(w, [transcript |-> Null, summary |-> summary]))

(***************************************************************************)
(* SummarizationService: the direct-transcript branch and the file branch. *)
(***************************************************************************)
\* fetchYouTubeTranscript, lines 102-109
fetchYouTubeTranscript(transcriptItems) ==
    LET fullTranscript ==
            JoinSpace(FilterNonEmpty([i \in DOMAIN transcriptItems |->
                                         Trim(transcriptItems[i].text)]))
        words == SplitSpace(fullTranscript)
        safeLength == MAX_TOKENS \div 4
    IN  JoinSpace(Slice0(words, safeLength))

ExtTxt == <<".", "t", "x", "t">>
ExtPdf == <<".", "p", "d", "f">>
ExtDocx == <<".", "d", "o", "c", "x">>

\* summarizeFile after extractTextFromFile has returned (lines 158-163)
summarizeFile_extracted(r, w, text) ==
    IF Trim(text) = <<>>
    THEN Commit(r, Reject(w, BadRequestException("Could not extract text from the file.")))
    ELSE summarizeText_call(r, w, text, "file")

\* extractTextFromFile whose default case decodes the buffer as text
extractTextFromFile_DefaultAsText(r, w, file) ==
    LET ext == ToLowerCase(extname(file.originalname))
    IN  CASE ext = ExtPdf ->
                Commit(r, At(Logged(w, "extractTextFromPdf", file.originalname), "extractTextFromPdf"))
          [] ext = ExtDocx ->
                Commit(r, At(Logged(w, "extractTextFromDocx", file.originalname), "extractTextFromDocx"))
          [] OTHER -> summarizeFile_extracted(r, w, file.buffer)

\* extractTextFromFile (lines 314-334), as called from line 156
extractTextFromFile(r, w, file) ==
    LET ext == ToLowerCase(extname(file.originalname))
    IN  CASE ext = ExtTxt -> summarizeFile_extracted(r, w, file.buffer)
          [] ext = ExtPdf ->
                Commit(r, At(Logged(w, "extractTextFromPdf", file.originalname), "extractTextFromPdf"))
          [] ext = ExtDocx ->
                Commit(r, At(Logged(w, "extractTextFromDocx", file.originalname), "extractTextFromDocx"))
          [] OTHER ->
                Commit(r, Reject(w, UnsupportedMediaTypeException(
                    "Unsupported file format. Only PDF, TXT, and DOCX are allowed.")))

(***************************************************************************)
(* Actions: an endpoint is called, or an awaited collaborator settles.     *)
(***************************************************************************)
\* summarizeYouTubeVideo without the `if (!videoId)` test of line 72
summarizeYouTubeVideo_NoIdCheck(r, videoUrl, optionsDto, userApiKey) ==
    /\ req[r].pc = "idle"
    /\ LET w0 == [World(r) EXCEPT !.s.input =
                     [kind |-> "youtube", videoUrl |-> videoUrl, file |-> NoFile,
                      optionsDto |-> optionsDto, userApiKey |-> userApiKey]]
       IN  IF ~isValidYouTubeUrl(videoUrl)
           THEN Commit(r, Reject(w0, BadRequestException("Invalid YouTube URL")))
           ELSE LET w1 == [w0 EXCEPT !.s.options = getSummarizationOptions(optionsDto)]
                    videoId == extractVideoId(videoUrl)
                IN  Commit(r, At(Logged(w1, "fetchTranscript", videoId), "fetchTranscript"))

\* summarizeYouTubeVideo without the URL validation of lines 61-63
summarizeYouTubeVideo_NoValidation(r, videoUrl, optionsDto, userApiKey) ==
    /\ req[r].pc = "idle"
    /\ LET w0 == [World(r) EXCEPT !.s.input =
                     [kind |-> "youtube", videoUrl |-> videoUrl, file |-> NoFile,
                      optionsDto |-> optionsDto, userApiKey |-> userApiKey]]
           w1 == [w0 EXCEPT !.s.options = getSummarizationOptions(optionsDto)]
           videoId == extractVideoId(videoUrl)
       IN  IF videoId = Null
           THEN summarizeYouTubeVideoUsingAudio(r, w1, "noId")
           ELSE Commit(r, At(Logged(w1, "fetchTranscript", videoId), "fetchTranscript"))

\* summarizeYouTubeVideo up to its first await (lines 54-79)
summarizeYouTubeVideo(r, videoUrl, optionsDto, userApiKey) ==
    /\ req[r].pc = "idle"
    /\ LET w0 == [World(r) EXCEPT !.s.input =
                     [kind |-> "youtube", videoUrl |-> videoUrl, file |-> NoFile,
                      optionsDto |-> optionsDto, userApiKey |-> userApiKey]]
       IN  IF ~isValidYouTubeUrl(videoUrl)
           THEN Commit(r, Reject(w0, BadRequestException("Invalid YouTube URL")))
           ELSE LET w1 == [w0 EXCEPT !.s.options = getSummarizationOptions(optionsDto)]
                    videoId == extractVideoId(videoUrl)
                IN  IF videoId = Null
                    THEN summarizeYouTubeVideoUsingAudio(r, w1, "noId")
                    ELSE Commit(r, At(Logged(w1, "fetchTranscript", videoId), "fetchTranscript"))

\* summarizeFile up to its first await (lines 147-163)
summarizeFile(r, file, optionsDto, userApiKey) ==
    /\ req[r].pc = "idle"
    /\ LET w0 == [World(r) EXCEPT
                     !.s.input = [kind |-> "file", videoUrl |-> <<>>, file |-> file,
                                  optionsDto |-> optionsDto, userApiKey |-> userApiKey],
                     !.s.options = getSummarizationOptions(optionsDto)]
       IN  extractTextFromFile(r, w0, file)

StartYouTube(r) ==
    \E videoUrl \in Urls, optionsDto \in OptionsDtos, userApiKey \in UserApiKeys :
        summarizeYouTubeVideo(r, videoUrl, optionsDto, userApiKey)

StartFile(r) ==
    \E file \in Files, optionsDto \in OptionsDtos, userApiKey \in UserApiKeys :
        summarizeFile(r, file, optionsDto, userApiKey)

\* YoutubeTranscript.fetchTranscript settles (lines 101-114, then 80)
FetchTranscriptReturns(r) ==
    /\ req[r].pc = "fetchTranscript"
    /\ \/ \E items \in TranscriptItems :
            LET transcript == fetchYouTubeTranscript(items)
                w == CallReturned(World(r), "fetchTranscript", <<>>)
            IN  summarizeText_call(r, [w EXCEPT !.s.transcript = transcript],
                                   transcript, "direct")
       \/ TranscriptCatch(r, Thrown(CallFailed(World(r), "fetchTranscript"), "fetchYouTubeTranscript"),
              PlainError("Could not fetch transcript from YouTube: " \o UpstreamMessage))

\* the download tool settles (lines 179-206, then 127)
YtdlpReturns(r) ==
    /\ req[r].pc = "ytdlp"
    /\ \E outcome \in YtdlpOutcomes : downloadAudio_return(r, World(r), outcome)

\* the speech-to-text service settles (lines 229-250, then 128)
TranscriptionSettles(r, texts) ==
    /\ req[r].pc = "transcriptions.create"
    /\ \/ \E text \in texts :
            LET w == CallReturned(World(r), "transcriptions.create", <<>>)
            IN  summarizeText_call(r, [w EXCEPT !.s.transcript = text], text, "audio")
       \/ AudioCatch(r, Thrown(CallFailed(World(r), "transcriptions.create"), "transcribeAudio"),
                     PlainError("Failed to transcribe audio: " \o UpstreamMessage))
TranscriptionReturns(r) == TranscriptionSettles(r, TranscriptionTexts \cup {LongTranscription})

\* the completion service settles (lines 273-305)
CompletionReturns(r) ==
    /\ req[r].pc = "completions.create"
    /\ \/ \E response \in CompletionResponses :
            summarizeText_return(r, CallReturned(World(r), "completions.create", <<response>>),
                                 summaryOf(response))
       \/ summarizeText_throw(r, CallFailed(World(r), "completions.create"), req[r].sumCtx,
              PlainError("Failed to summarize text: " \o UpstreamMessage))

\* extractTextFromPdf / extractTextFromDocx settles (lines 324, 327, then 156)
ExtractReturns(r) ==
    /\ req[r].pc \in {"extractTextFromPdf", "extractTextFromDocx"}
    /\ \/ \E text \in FileTexts :
            summarizeFile_extracted(r, CallReturned(World(r), req[r].pc, <<>>), text)
       \/ Commit(r, Reject(CallFailed(World(r), req[r].pc), ProviderError(UpstreamMessage)))

Step(r) ==
    \/ StartYouTube(r)
    \/ StartFile(r)
    \/ FetchTranscriptReturns(r)
    \/ YtdlpReturns(r)
    \/ TranscriptionReturns(r)
    \/ CompletionReturns(r)
    \/ ExtractReturns(r)

\* one request, served in isolation
Next == Step(FirstReq)
Spec == Init /\ [][Next]_vars

(***************************************************************************)
(* Concurrent audio-fallback requests: the framework runs every request    *)
(* of Reqs at once against the shared download directory.  Each request    *)
(* is for a URL without identifier, so it enters the audio branch at once, *)
(* and relies on the service's default key.                                *)
(***************************************************************************)
StartAudioRequest(r) ==
    summarizeYouTubeVideo(r, UrlChannel, NoOptions, Undefined)

ShortTranscriptionReturns(r) == TranscriptionSettles(r, TranscriptionTexts)

NextConcurrent ==
    \E r \in Reqs :
        \/ StartAudioRequest(r)
        \/ YtdlpReturns(r)
        \/ ShortTranscriptionReturns(r)
        \/ CompletionReturns(r)
SpecConcurrent == Init /\ [][NextConcurrent]_vars

(***************************************************************************)
(* The functions of the utilities and fetchYouTubeTranscript's text        *)
(* processing, each applied once to an argument drawn by the initial       *)
(* state.                                                                  *)
(***************************************************************************)
KeyValues == {Undefined, "", "k1", "k2"}
OptionFields == {"length", "format", "listen", "model", "speed"}
FullOptionsDtos ==
    {[length |-> "short", format |-> "bullet-points", listen |-> TRUE,
      model |-> "deepseek", speed |-> "fast"],
     [length |-> "detailed", format |-> "narrative", listen |-> FALSE,
      model |-> "openai", speed |-> "slow"]}
\* no argument, or a DTO holding any subset of the fields
PartialOptionsDtos ==
    {NoOptions} \cup
        {[f \in D |-> full[f]] : D \in SUBSET OptionFields, full \in FullOptionsDtos}

VideoIds == {<<"d", "Q", "w", "4", "w", "9", "W", "g", "X", "c", "Q">>, <<"a", "-", "b", "_", "c", "-", "d", "_", "e", "-", "f">>, <<"-", "-", "-", "-", "-", "-", "-", "-", "-", "-", "-">>, <<"_", "_", "_", "_", "_", "_", "_", "_", "_", "_", "_">>, <<"0", "1", "2", "3", "4", "5", "6", "7", "8", "9", "A">>}
OtherVideoId == <<"Z", "Z", "Z", "Z", "Z", "Z", "Z", "Z", "Z", "Z", "Z">>
Schemes == {<<>>, <<"h", "t", "t", "p", ":", "/", "/">>, <<"h", "t", "t", "p", "s", ":", "/", "/">>}
Wwws == {<<>>, <<"w", "w", "w", ".">>}
\* the accepted URL shapes around an identifier
ShapeWatch(id) == <<"y", "o", "u", "t", "u", "b", "e", ".", "c", "o", "m", "/", "w", "a", "t", "c", "h", "?", "v", "=">> \o id
ShapeShort(id) == <<"y", "o", "u", "t", "u", ".", "b", "e", "/">> \o id
ShapeShorts(id) == <<"y", "o", "u", "t", "u", "b", "e", ".", "c", "o", "m", "/", "s", "h", "o", "r", "t", "s", "/">> \o id
ShapeUrls ==
    {sch \o www \o shape : sch \in Schemes, www \in Wwws,
        shape \in UNION {{ShapeWatch(id), ShapeShort(id), ShapeShorts(id)} : id \in VideoIds}}
\* URLs that more than one pattern matches, with different captures
MultiMatchUrls ==
    UNION {{<<"h", "t", "t", "p", "s", ":", "/", "/", "y", "o", "u", "t", "u", "b", "e", ".", "c", "o", "m", "/">> \o OtherVideoId \o <<"/", "y", "o", "u", "t", "u", ".", "b", "e", "/">> \o id,
            <<"h", "t", "t", "p", "s", ":", "/", "/", "y", "o", "u", "t", "u", ".", "b", "e", "/">> \o id \o <<"/", "s", "h", "o", "r", "t", "s", "/">> \o OtherVideoId,
            <<"h", "t", "t", "p", "s", ":", "/", "/", "y", "o", "u", "t", "u", "b", "e", ".", "c", "o", "m", "/", "s", "h", "o", "r", "t", "s", "/">> \o id \o <<"?", "v", "=">> \o OtherVideoId,
            <<"h", "t", "t", "p", "s", ":", "/", "/", "y", "o", "u", "t", "u", "b", "e", ".", "c", "o", "m", "/", "e", "m", "b", "e", "d", "/">> \o OtherVideoId \o <<"/", "s", "h", "o", "r", "t", "s", "/">> \o id}
           : id \in VideoIds}
VideoUrls == ShapeUrls \cup MultiMatchUrls \cup Urls

\* a transcript of n one-word segments
WordAt(i) == <<LowerAlpha[(i % Len(LowerAlpha)) + 1]>>
OneWordItems(n) == [i \in 1..n |-> [text |-> WordAt(i)]]
\* n segments, the first of which holds a line break, as caption lines do
TwoLineItems(n) ==
    [i \in 1..n |-> [text |-> IF i = 1 THEN <<"a", "\n", "b">> ELSE WordAt(i)]]
\* n segments, the first of which holds two spaces in a row
WideGapItems(n) ==
    [i \in 1..n |-> [text |-> IF i = 1 THEN <<"a", " ", " ", "b">> ELSE WordAt(i)]]
SafeLength == MAX_TOKENS \div 4
LongTranscriptItems ==
    {OneWordItems(SafeLength - 1), OneWordItems(SafeLength),
     OneWordItems(SafeLength + 1), OneWordItems(100000),
     TwoLineItems(SafeLength), WideGapItems(SafeLength)}

PureCalls ==
    {[fn |-> "getApiKey", arg |-> <<u, d>>, applied |-> FALSE, result |-> <<>>]
        : u \in KeyValues, d \in KeyValues}
    \cup {[fn |-> "getSummarizationOptions", arg |-> <<o>>, applied |-> FALSE, result |-> <<>>]
        : o \in PartialOptionsDtos}
    \cup {[fn |-> "extractVideoId", arg |-> <<u>>, applied |-> FALSE, result |-> <<>>]
        : u \in VideoUrls}
    \cup {[fn |-> "fetchYouTubeTranscript", arg |-> <<i>>, applied |-> FALSE, result |-> <<>>]
        : i \in TranscriptItems \cup LongTranscriptItems}

InitPure ==
    /\ req = [r \in Reqs |-> IdleReq]
    /\ files = {}
    /\ issued = {}
    /\ defaultApiKey \in DefaultApiKeys
    /\ call \in PureCalls

Applied(fn, result) ==
    /\ call.fn = fn
    /\ ~call.applied
    /\ call' = [call EXCEPT !.applied = TRUE, !.result = result]
    /\ UNCHANGED <<req, files, issued, defaultApiKey>>

\* the key returned, or the exception thrown
ApplyGetApiKey ==
    LET got == getApiKey(call.arg[1], call.arg[2])
    IN  Applied("getApiKey",
                IF got.ok THEN [returned |-> got.key, thrown |-> NoError]
                ELSE [returned |-> Undefined, thrown |-> MissingKeyError])
\* the record returned, and the argument object as the call leaves it
ApplyGetSummarizationOptions ==
    Applied("getSummarizationOptions",
            [returned |-> getSummarizationOptions(call.arg[1]), options |-> call.arg[1]])
ApplyExtractVideoId == Applied("extractVideoId", extractVideoId(call.arg[1]))
ApplyFetchYouTubeTranscript ==
    Applied("fetchYouTubeTranscript", fetchYouTubeTranscript(call.arg[1]))

NextPure ==
    \/ ApplyGetApiKey
    \/ ApplyGetSummarizationOptions
    \/ ApplyExtractVideoId
    \/ ApplyFetchYouTubeTranscript
SpecPure == InitPure /\ [][NextPure]_vars

(***************************************************************************)
(* Properties.                                                             *)
(***************************************************************************)
IsYouTube(s) == s.input.kind = "youtube"
IsFile(s) == s.input.kind = "file"
Ended(s) == s.pc = "done"
Failed(s) == s.result.status = "rejected"
\* the positions of the log holding an entry for one of `ops`
LogAt(s, ops) == {i \in DOMAIN s.log : s.log[i].op \in ops}
\* neither a caller-supplied nor a default key is available
NoKey(s) == ~Truthy(s.input.userApiKey) /\ ~Truthy(defaultApiKey)
\* the files of the download directory that start with the request's prefix
PrefixFiles(s) == {f \in files : StartsWith(f, extractPrefixFromPath(s.audioPath))}
BackendCalls == {"transcriptions.create", "completions.create"}

\* C1: when a request whose downloadAudio created the audio file has ended,
\* with a result or with an error, no file starting with its generated
\* prefix is left in the download directory.
C1_NoArtifactOutlivesRequest ==
    \A r \in Reqs :
        (Ended(req[r]) /\ req[r].audioCreated) => PrefixFiles(req[r]) = {}

\* C2: every failure of summarizeYouTubeVideo reaches the caller as an
\* exception of a client-error (4xx) class carrying a message.
C2_FailuresAreBadRequest ==
    \A r \in Reqs :
        (IsYouTube(req[r]) /\ Failed(req[r])) =>
            /\ req[r].result.error.cls \in ClientErrorClasses
            /\ req[r].result.error.msg # ""

\* C3: a request for a valid URL without extractable identifier calls the
\* download tool first, with that URL, and never calls the transcript-fetch
\* service.
C3_NoIdGoesStraightToAudio ==
    \A r \in Reqs :
        LET s == req[r]
        IN  (IsYouTube(s) /\ isValidYouTubeUrl(s.input.videoUrl)
                /\ extractVideoId(s.input.videoUrl) = Null) =>
                /\ Len(s.log) >= 1
                /\ s.log[1] = [op |-> "ytdlp", arg |-> s.input.videoUrl]
                /\ LogAt(s, {"fetchTranscript"}) = {}
C3_Witness ==
    \E r \in Reqs :
        /\ IsYouTube(req[r]) /\ Ended(req[r])
        /\ isValidYouTubeUrl(req[r].input.videoUrl)
        /\ extractVideoId(req[r].input.videoUrl) = Null
        /\ LogAt(req[r], {"ytdlp"}) # {}

\* C4: a failed transcript fetch is followed at once by a call of the
\* download tool with the original URL; a failure of a step of the audio
\* branch (download, transcription, the summarization after them) is the
\* last thing the request does, and the request ends in an error.
AudioStepFailures(s) ==
    LogAt(s, {"downloadAudio.rejected", "transcribeAudio.rejected"})
        \cup {i \in LogAt(s, {"summarizeText.rejected"}) :
                \E j \in LogAt(s, {"ytdlp"}) : j < i}
C4_FallbackThenTerminal ==
    \A r \in Reqs :
        LET s == req[r]
        IN  /\ \A i \in LogAt(s, {"fetchYouTubeTranscript.rejected"}) :
                  /\ i < Len(s.log)
                  /\ s.log[i + 1] = [op |-> "ytdlp", arg |-> s.input.videoUrl]
            /\ \A i \in AudioStepFailures(s) :
                  /\ i = Len(s.log)
                  /\ Ended(s) /\ Failed(s)
C4_Witness ==
    \E r \in Reqs :
        /\ LogAt(req[r], {"fetchYouTubeTranscript.rejected"}) # {}
        /\ LogAt(req[r], {"transcribeAudio.rejected"}) # {}
        /\ LogAt(req[r], {"transcriptions.create"}) # {}
        /\ Ended(req[r])

\* C5: every call of the speech-to-text or of the completion service comes
\* right after a getApiKey that returned a non-empty key, the caller's or
\* the default one; without any key neither service is ever called.
C5_KeyResolvedBeforeBackend ==
    \A r \in Reqs :
        LET s == req[r]
        IN  /\ \A i \in LogAt(s, BackendCalls) :
                  /\ i > 1
                  /\ s.log[i - 1].op = "getApiKey"
                  /\ Truthy(s.log[i - 1].arg[1])
                  /\ s.log[i - 1].arg[1] \in {s.input.userApiKey, defaultApiKey}
            /\ NoKey(s) => LogAt(s, BackendCalls) = {}
C5_Witness ==
    \E r \in Reqs :
        /\ LogAt(req[r], {"transcriptions.create"}) # {}
        /\ LogAt(req[r], {"completions.create"}) # {}
        /\ req[r].result.status = "resolved"

\* C6: without any key a YouTube request fails with the missing-credential
\* error before the download tool is invoked or an audio file is created.
C6_MissingKeyFailsBeforeDownload ==
    \A r \in Reqs :
        (IsYouTube(req[r]) /\ NoKey(req[r])) =>
            /\ LogAt(req[r], {"ytdlp"}) = {}
            /\ ~req[r].audioCreated

\* C7: a request whose URL isValidYouTubeUrl rejects has failed with the
\* invalid-URL BadRequestException without any call to a collaborator and
\* without an audio path or file.
C7_InvalidUrlFailsFirst ==
    \A r \in Reqs :
        LET s == req[r]
        IN  (IsYouTube(s) /\ ~isValidYouTubeUrl(s.input.videoUrl)) =>
                /\ Ended(s)
                /\ s.result = Rejected(BadRequestException("Invalid YouTube URL"))
                /\ s.log = <<>>
                /\ s.audioPath = Null /\ ~s.audioCreated
C7_Witness ==
    \E r \in Reqs :
        /\ IsYouTube(req[r]) /\ Ended(req[r])
        /\ ~isValidYouTubeUrl(req[r].input.videoUrl)

\* C8: the text handed to the completion service is non-empty after
\* trimming, for file and YouTube requests alike.
C8_CompletionTextNonEmpty ==
    \A r \in Reqs :
        \A i \in LogAt(req[r], {"completions.create"}) :
            Trim(req[r].log[i].arg) # <<>>

\* C9: a file whose (lower-cased) extension is none of .txt, .pdf, .docx is
\* rejected as unsupported media type without any call; a .txt file never
\* reaches an extractor and its decoded buffer is the text summarized; a
\* .pdf file reaches the PDF extractor only, a .docx file the DOCX one only.
FileExt(s) == ToLowerCase(extname(s.input.file.originalname))
Extractors == {"extractTextFromPdf", "extractTextFromDocx"}
C9_ExtensionDispatch ==
    \A r \in Reqs :
        LET s == req[r]
        IN  IsFile(s) =>
              /\ FileExt(s) \notin {ExtTxt, ExtPdf, ExtDocx} =>
                    /\ Ended(s) /\ Failed(s)
                    /\ s.result.error.cls = "UnsupportedMediaTypeException"
                    /\ s.log = <<>>
              /\ FileExt(s) = ExtTxt =>
                    /\ LogAt(s, Extractors) = {}
                    /\ \A i \in LogAt(s, {"completions.create"}) :
                          s.log[i].arg = s.input.file.buffer
              /\ FileExt(s) = ExtPdf =>
                    /\ LogAt(s, Extractors) = {1}
                    /\ s.log[1].op = "extractTextFromPdf"
              /\ FileExt(s) = ExtDocx =>
                    /\ LogAt(s, Extractors) = {1}
                    /\ s.log[1].op = "extractTextFromDocx"
C9_Witness ==
    \E r \in Reqs :
        /\ IsFile(req[r]) /\ Ended(req[r])
        /\ FileExt(req[r]) \notin {ExtTxt, ExtPdf, ExtDocx}
        /\ req[r].input.file.buffer # <<>>

\* C10: no step deletes the audio file of a request that has downloaded it
\* and is still waiting for its transcription, whichever request takes the
\* step; in particular the cleanup of another request leaves it in place.
AwaitingTranscription(s) ==
    /\ s.pc = "transcriptions.create"
    /\ basename(s.audioPath) \in files
WordStarts(s) ==
    SelectSeq(Indices(s), LAMBDA i : s[i] \notin WhiteSpace /\ (i = 1 \/ s[i - 1] \in WhiteSpace))
WordEnds(s) ==
    SelectSeq(Indices(s), LAMBDA i : s[i] \notin WhiteSpace /\ (i = Len(s) \/ s[i + 1] \in WhiteSpace))
Words(s) ==
    LET b == WordStarts(s)
        e == WordEnds(s)
    IN  [k \in 1..Len(b) |-> SubSeq(s, b[k], e[k])]
WordCount(s) == Len(WordStarts(s))
\* the joined transcript: segments trimmed, empty ones dropped, single spaces
JoinedTranscript(items) ==
    JoinSpace(FilterNonEmpty([i \in DOMAIN items |-> Trim(items[i].text)]))

\* C11: fetchYouTubeTranscript returns the first min(n, floor(MAX_TOKENS/4))
\* whitespace-separated words of the joined transcript, n being its word
\* count, and what it returns is a prefix of the joined transcript.
C11_TranscriptTruncatedToWordBudget ==
    (call.fn = "fetchYouTubeTranscript" /\ call.applied) =>
        LET joined == JoinedTranscript(call.arg[1])
            n == WordCount(joined)
        IN  /\ Words(call.result)
                  = SubSeq(Words(joined), 1, IF n < SafeLength THEN n ELSE SafeLength)
            /\ StartsWith(joined, call.result)

\* C12: getApiKey returns the caller's key when it is non-empty, else the
\* default key when that is non-empty, else throws the missing-key
\* exception; a key it returns is never empty or undefined.
C12_KeyPrecedence ==
    (call.fn = "getApiKey" /\ call.applied) =>
        LET userKey == call.arg[1]
            defaultKey == call.arg[2]
            present(k) == k \notin {Undefined, ""}
            returns(k) == call.result = [returned |-> k, thrown |-> NoError]
        IN  /\ present(userKey) => returns(userKey)
            /\ (~present(userKey) /\ present(defaultKey)) => returns(defaultKey)
            /\ (~present(userKey) /\ ~present(defaultKey)) =>
                   call.result = [returned |-> Undefined, thrown |-> MissingKeyError]
            /\ call.result.thrown = NoError => present(call.result.returned)
C12_Witness ==
    /\ call.fn = "getApiKey" /\ call.applied
    /\ call.arg = <<"", "k2">>
    /\ call.result.returned = "k2"

\* C13: for every absent or partial options argument getSummarizationOptions
\* returns a record of all five fields, each the argument's value when the
\* argument has the field and the default otherwise; resolving the record
\* returned gives the same record; the argument is unchanged by the call.
OptionDefaults ==
    [length |-> "standard", format |-> "narrative", listen |-> FALSE,
     model |-> "openai", speed |-> "slow"]
C13_OptionsTotalIdempotentPure ==
    (call.fn = "getSummarizationOptions" /\ call.applied) =>
        LET x == call.arg[1]
            y == call.result.returned
        IN  /\ DOMAIN y = OptionFields
            /\ \A f \in OptionFields :
                  y[f] = IF f \in DOMAIN x THEN x[f] ELSE OptionDefaults[f]
            /\ getSummarizationOptions(y) = y
            /\ call.result.options = x
C13_Witness ==
    /\ call.fn = "getSummarizationOptions" /\ call.applied
    /\ call.arg[1] = [length |-> "short", listen |-> TRUE]
    /\ call.result.returned =
           [length |-> "short", format |-> "narrative", listen |-> TRUE,
            model |-> "openai", speed |-> "slow"]

\* C14: for an 11-character identifier in watch?v=ID, youtu.be/ID or
\* /shorts/ID, with or without scheme and www., extractVideoId returns the
\* identifier; for any URL it returns the capture of the first of the three
\* patterns, in their order, that matches, and null when none does.
Capture(url, k) == PatternMatch(url, Patterns[k].leads, Patterns[k].terms)
Matching(url) == {k \in DOMAIN Patterns : Capture(url, k) # Null}
C14_IdentifierExtracted ==
    (call.fn = "extractVideoId" /\ call.applied) =>
        LET url == call.arg[1]
        IN  /\ \A id \in VideoIds, sch \in Schemes, www \in Wwws :
                  /\ Len(id) = 11 /\ Range(id) \subseteq WordDash
                  /\ url \in {sch \o www \o ShapeWatch(id),
                              sch \o www \o ShapeShort(id),
                              sch \o www \o ShapeShorts(id)} => call.result = id
            /\ Matching(url) = {} => call.result = Null
            /\ Matching(url) # {} => call.result = Capture(url, Min(Matching(url)))
C14_Witness ==
    /\ call.fn = "extractVideoId" /\ call.applied
    /\ call.arg[1] \in MultiMatchUrls
    /\ Cardinality({Capture(call.arg[1], k) : k \in Matching(call.arg[1])}) > 1
    /\ call.result = Capture(call.arg[1], 1)

\* C15: the speech-to-text service is called only after the download tool
\* has returned and with the audio file in the download directory; when the
\* tool fails, or returns without having written the file, downloadAudio
\* throws the audio-download error, no speech-to-text call is made and the
\* request fails with that error.
DownloadFailedMessage == "Failed to summarize video using audio: Failed to download audio"
C15_AudioPathOnlyIfFileExists ==
    \A r \in Reqs :
        LET s == req[r]
            toolReturnedNoFile ==
                {i \in LogAt(s, {"ytdlp.resolved"}) : basename(s.audioPath) \notin files \cup s.cleanupSaw}
        IN  /\ s.pc = "transcriptions.create" => basename(s.audioPath) \in files
            /\ \A i \in LogAt(s, {"transcriptions.create"}) :
                  /\ s.log[i].arg = s.audioPath
                  /\ \E j \in LogAt(s, {"ytdlp.resolved"}) : j < i
                  /\ LogAt(s, {"ytdlp.rejected", "downloadAudio.rejected"}) = {}
            /\ \A i \in LogAt(s, {"ytdlp.rejected"}) \cup toolReturnedNoFile :
                  /\ i < Len(s.log)
                  /\ s.log[i + 1].op = "downloadAudio.rejected"
            /\ LogAt(s, {"downloadAudio.rejected"}) # {} =>
                  /\ LogAt(s, {"transcriptions.create"}) = {}
                  /\ Ended(s) /\ Failed(s)
                  /\ s.result.error.msg = DownloadFailedMessage
C15_Witness ==
    \E r \in Reqs :
        LET s == req[r]
        IN  /\ Ended(s)
            /\ \E i \in LogAt(s, {"ytdlp.resolved"}) :
                  /\ i < Len(s.log)
                  /\ s.log[i + 1].op = "downloadAudio.rejected"
            /\ basename(s.audioPath) \notin files

\* C16: every call of the completion service either returns or fails; when
\* it returns, summarizeText returns the first choice's content if there is
\* one and it is non-empty, and the placeholder otherwise, never the empty
\* string; when it fails, summarizeText throws an Error whose message is
\* "Failed to summarize text: " followed by the upstream message.
Placeholder == "Could not generate a summary."
ContentOf(response) ==
    IF response.choices = <<>> THEN "" ELSE response.choices[1].message.content
C16_SummarizeTextOutcomes ==
    \A r \in Reqs :
        LET s == req[r]
        IN  /\ \A i \in LogAt(s, {"completions.create"}) :
                  i < Len(s.log) =>
                      s.log[i + 1].op \in {"completions.create.resolved",
                                           "completions.create.rejected"}
            /\ \A i \in LogAt(s, {"completions.create.resolved"}) :
                  LET content == ContentOf(s.log[i].arg[1])
                  IN  /\ i = Len(s.log)
                      /\ Ended(s) /\ ~Failed(s)
                      /\ s.result.value.summary =
                             IF content # "" THEN content ELSE Placeholder
                      /\ s.result.value.summary # ""
            /\ \A i \in LogAt(s, {"completions.create.rejected"}) :
                  /\ i < Len(s.log)
                  /\ s.log[i + 1] =
                         [op |-> "summarizeText.rejected",
                          arg |-> <<"Error", "Failed to summarize text: " \o s.log[i].arg[1]>>]
C16_Witness ==
    \E r \in Reqs :
        LET s == req[r]
        IN  /\ Ended(s)
            /\ \E i \in LogAt(s, {"completions.create.resolved"}) :
                  ContentOf(s.log[i].arg[1]) = ""
            /\ s.result.value.summary = Placeholder

\* C17: in a request whose transcript fetch succeeded, neither the
\* audio-download tool nor the speech-to-text service is ever called.
C17_NoAudioAfterTranscript ==
    \A r \in Reqs :
        LogAt(req[r], {"fetchTranscript.resolved"}) # {} =>
            LogAt(req[r], {"ytdlp", "transcriptions.create"}) = {}

\* C18: during one summarizeYouTubeVideo request each collaborator - the
\* transcript-fetch service, the audio-download tool, the speech-to-text
\* service, the completion service - is called at most once.
Collaborators == {"fetchTranscript", "ytdlp", "transcriptions.create", "completions.create"}
C18_EachCollaboratorAtMostOnce ==
    \A r \in Reqs :
        IsYouTube(req[r]) =>
            \A op \in Collaborators : Cardinality(LogAt(req[r], {op})) <= 1

\* C19: in a YouTube request the transcript passed to the completion
\* service has at most floor(MAX_TOKENS/4) whitespace-separated words,
\* whether it was fetched or transcribed from the audio.
C19_TranscriptWithinWordBudget ==
    \A r \in Reqs :
        IsYouTube(req[r]) =>
            \A i \in LogAt(req[r], {"completions.create"}) :
                WordCount(req[r].log[i].arg) <= SafeLength

====
